---- MODULE Spec2Model ----
(***************************************************************************)
(* TextMetricsHelper (src/TextMetricsHelper.js) as a state machine.        *)
(*                                                                         *)
(* State: the DOM element's computed style (the environment), the helper   *)
(* instance produced by the most recent `new TextMetricsHelper(...)`, and   *)
(* the observation of the most recent operation (its arguments, its return *)
(* value, the exception it threw and the external calls it made).          *)
(*                                                                         *)
(* JavaScript values are records tagged by t: numbers are exact rationals  *)
(* n/d in lowest terms, NaN and undefined are values of their own, so that *)
(* `undefined + undefined`, `NaN === NaN` and parseFloat("normal") behave  *)
(* as they do in the language.  Floating-point rounding is not modelled.   *)
(* Font sizes range over positive values (FontDescriptor.fontSize).        *)
(***************************************************************************)
EXTENDS Integers, Sequences, FiniteSets, TLC

(* ------------------------------ bounds --------------------------------- *)

\* lineCount arguments range over -MaxLineCount .. MaxLineCount
MaxLineCount == 2

(* --------------------------- JavaScript values ------------------------- *)

Undefined == [t |-> "undefined"]

NaN == [t |-> "NaN"]

Null == [t |-> "null"]

Str(s) == [t |-> "str", s |-> s]

Abs(i) == IF i < 0 THEN -i ELSE i

RECURSIVE GCD(_, _)
GCD(a, b) == IF b = 0 THEN a ELSE GCD(b, a % b)

\* the number n/d (d # 0), in lowest terms with a positive denominator
Num(n, d) ==
  LET g == GCD(Abs(n), Abs(d))
      s == IF d < 0 THEN -1 ELSE 1
  IN  [t |-> "num", n |-> (s * n) \div g, d |-> (s * d) \div g]

Whole(i) == Num(i, 1)

IsNum(v) == v.t = "num"

\* ToNumber on the operands of an arithmetic operator: undefined -> NaN
ToNumber(v) == IF IsNum(v) THEN v ELSE NaN

\* a + b on numbers / undefined / NaN
Add(a, b) ==
  LET x == ToNumber(a)
      y == ToNumber(b)
  IN  IF IsNum(x) /\ IsNum(y) THEN Num(x.n * y.d + y.n * x.d, x.d * y.d) ELSE NaN

\* a * b
Mul(a, b) ==
  LET x == ToNumber(a)
      y == ToNumber(b)
  IN  IF IsNum(x) /\ IsNum(y) THEN Num(x.n * y.n, x.d * y.d) ELSE NaN

\* a / b, for a divisor that is NaN, undefined or a non-zero number
Div(a, b) ==
  LET x == ToNumber(a)
      y == ToNumber(b)
  IN  IF IsNum(x) /\ IsNum(y) THEN Num(x.n * y.d, x.d * y.n) ELSE NaN

\* a === b : NaN is not strictly equal to anything, itself included
StrictEq(a, b) == a # NaN /\ b # NaN /\ a = b

\* !v
Falsy(v) == v \in {Undefined, Null, NaN, Whole(0), Str("")}

\* a parameter with a default value: the default applies when the argument
\* is undefined (omitted)
Default(arg, dflt) == IF arg = Undefined THEN dflt ELSE arg

(* ------------------------ computed style values ------------------------ *)

\* a computed CSS value: the keyword "normal" or the string "<n/d>px"
Normal == [t |-> "css", kw |-> "normal"]

Px(n, d) == [t |-> "css", kw |-> "px", num |-> Num(n, d)]

\* parseFloat: the leading number of the string, NaN when there is none
parseFloat(v) == IF v.t = "css" /\ v.kw = "px" THEN v.num ELSE NaN

\* style.lineHeight === "normal"
IsNormal(v) == v.t = "css" /\ v.kw = "normal"

\* the 1.1 safety factor of estimateNormalLineHeight
SafetyFactor == Num(11, 10)

\* the fallback line-height of getMinLineHeight
Fallback == Whole(1)

\* the default reference text (its first letter is A with diaeresis)
DefaultReferenceText == Str("AyG|?")

(* ------------------------------ input sets ----------------------------- *)

TheElement == [t |-> "element", id |-> "el"]

FontSizes == {Px(16, 1), Px(48, 1)}

LineHeights == {Normal, Px(24, 1), Px(576, 10)}

Ascents == {Undefined, Whole(40)}

Descents == {Undefined, Whole(8)}

Targets == {Null, Undefined, TheElement}

ReferenceTexts == {Undefined, Str("Hg")}

LineCounts == {Undefined} \cup {Whole(i) : i \in (-MaxLineCount)..MaxLineCount}

SuppliedLineHeights == {Undefined, Num(6, 5)}

(* ------------------------------ the class ------------------------------ *)

NoInstance == [t |-> "none"]

NoError == [t |-> "none"]

\* new Error("TextMetricsHelper: no element provided.")
NoElementError == [t |-> "Error", message |-> "TextMetricsHelper: no element provided."]

\* what one call did: the value it returned, the exception it threw, the
\* receiver after the call, and the external calls it made, in order
Outcome(ret, thrown, self, effects) ==
  [ret |-> ret, thrown |-> thrown, self |-> self, effects |-> effects]

\* the template literal assigned to ctx.font
FontString(fontStyle, fontWeight, fontSize, fontFamily) ==
  <<fontStyle, fontWeight, [t |-> "css", kw |-> "px", num |-> fontSize], fontFamily>>

\* variant of constructor: the element check comes after the style lookup
constructor_LateCheck(element, referenceTextArg, style, measured) ==
  LET referenceText == Default(referenceTextArg, DefaultReferenceText)
      fontSize == parseFloat(style.fontSize)
  IN  IF Falsy(element)
      THEN Outcome(Undefined, NoElementError, NoInstance, <<"getComputedStyle">>)
      ELSE Outcome(Undefined, NoError,
                   [t |-> "TextMetricsHelper",
                    element |-> element,
                    referenceText |-> referenceText,
                    fontSize |-> fontSize,
                    fontFamily |-> style.fontFamily,
                    fontWeight |-> style.fontWeight,
                    fontStyle |-> style.fontStyle,
                    font |-> FontString(style.fontStyle, style.fontWeight,
                                        fontSize, style.fontFamily),
                    metrics |-> measured],
                   <<"getComputedStyle", "createElement", "getContext", "measureText">>)

\* new TextMetricsHelper(element, referenceText): style is what
\* window.getComputedStyle(element) reports, measured what
\* ctx.measureText(referenceText) reports
constructor(element, referenceTextArg, style, measured) ==
  LET referenceText == Default(referenceTextArg, DefaultReferenceText)
      fontSize == parseFloat(style.fontSize)
  IN  IF Falsy(element)
      THEN Outcome(Undefined, NoElementError, NoInstance, <<>>)
      ELSE Outcome(Undefined, NoError,
                   [t |-> "TextMetricsHelper",
                    element |-> element,
                    referenceText |-> referenceText,
                    fontSize |-> fontSize,
                    fontFamily |-> style.fontFamily,
                    fontWeight |-> style.fontWeight,
                    fontStyle |-> style.fontStyle,
                    font |-> FontString(style.fontStyle, style.fontWeight,
                                        fontSize, style.fontFamily),
                    metrics |-> measured],
                   <<"getComputedStyle", "createElement", "getContext", "measureText">>)

\* variant of getMinLineHeight: the descent is left out of the visual height
getMinLineHeight_AscentOnly(self) ==
  IF \/ self.metrics.actualBoundingBoxAscent = Undefined
     \/ self.metrics.actualBoundingBoxDescent = Undefined
  THEN Outcome(Fallback, NoError, self, <<"console.warn">>)
  ELSE Outcome(Div(self.metrics.actualBoundingBoxAscent, self.fontSize),
               NoError, self, <<>>)

\* variant of getMinLineHeight: falls back only when both fields are absent
getMinLineHeight_BothAbsent(self) ==
  IF /\ self.metrics.actualBoundingBoxAscent = Undefined
     /\ self.metrics.actualBoundingBoxDescent = Undefined
  THEN Outcome(Fallback, NoError, self, <<"console.warn">>)
  ELSE Outcome(Div(Add(self.metrics.actualBoundingBoxAscent,
                       self.metrics.actualBoundingBoxDescent),
                   self.fontSize),
               NoError, self, <<>>)

\* variant of getMinLineHeight: the fallback path stores substitute metrics
\* (ascent = fontSize, descent = 0) in the instance
getMinLineHeight_Repair(self) ==
  IF \/ self.metrics.actualBoundingBoxAscent = Undefined
     \/ self.metrics.actualBoundingBoxDescent = Undefined
  THEN Outcome(Fallback, NoError,
               [self EXCEPT !.metrics = [actualBoundingBoxAscent |-> self.fontSize,
                                         actualBoundingBoxDescent |-> Whole(0)]],
               <<"console.warn">>)
  ELSE Outcome(Div(Add(self.metrics.actualBoundingBoxAscent,
                       self.metrics.actualBoundingBoxDescent),
                   self.fontSize),
               NoError, self, <<>>)

getMinLineHeight(self) ==
  IF \/ self.metrics.actualBoundingBoxAscent = Undefined
     \/ self.metrics.actualBoundingBoxDescent = Undefined
  THEN Outcome(Fallback, NoError, self, <<"console.warn">>)
  ELSE Outcome(Div(Add(self.metrics.actualBoundingBoxAscent,
                       self.metrics.actualBoundingBoxDescent),
                   self.fontSize),
               NoError, self, <<>>)

\* variant of estimateNormalLineHeight: the 1.1 safety factor is missing
estimateNormalLineHeight_NoFactor(self) ==
  LET ascent == self.metrics.actualBoundingBoxAscent
      descent == self.metrics.actualBoundingBoxDescent
      visual == Add(ascent, descent)
  IN  Outcome(Div(visual, self.fontSize), NoError, self, <<>>)

estimateNormalLineHeight(self) ==
  LET ascent == self.metrics.actualBoundingBoxAscent
      descent == self.metrics.actualBoundingBoxDescent
      visual == Add(ascent, descent)
  IN  Outcome(Mul(Div(visual, self.fontSize), SafetyFactor), NoError, self, <<>>)

\* variant of getElementLineHeight: divides by the element's current font
\* size instead of the one stored at construction
getElementLineHeight_LiveFontSize(self, style) ==
  IF IsNormal(style.lineHeight)
  THEN LET e == estimateNormalLineHeight(self)
       IN  Outcome(e.ret, e.thrown, e.self, <<"getComputedStyle">> \o e.effects)
  ELSE Outcome(Div(parseFloat(style.lineHeight), parseFloat(style.fontSize)),
               NoError, self, <<"getComputedStyle">>)

\* style is what window.getComputedStyle(this.element) reports now
getElementLineHeight(self, style) ==
  IF IsNormal(style.lineHeight)
  THEN LET e == estimateNormalLineHeight(self)
       IN  Outcome(e.ret, e.thrown, e.self, <<"getComputedStyle">> \o e.effects)
  ELSE Outcome(Div(parseFloat(style.lineHeight), self.fontSize),
               NoError, self, <<"getComputedStyle">>)

\* variant of getHeightForLines: a line count below 1 is raised to 1
getHeightForLines_Clamped(self, style, lineCountArg, lineHeightArg) ==
  LET given == Default(lineCountArg, Whole(1))
      lineCount == IF IsNum(given) /\ given.n < given.d THEN Whole(1) ELSE given
  IN  IF lineHeightArg = Undefined
      THEN LET d == getElementLineHeight(self, style)
           IN  Outcome(Mul(Mul(d.ret, d.self.fontSize), lineCount),
                       d.thrown, d.self, d.effects)
      ELSE Outcome(Mul(Mul(lineHeightArg, self.fontSize), lineCount),
                   NoError, self, <<>>)

\* the default of lineHeight is evaluated only when the argument is omitted
getHeightForLines(self, style, lineCountArg, lineHeightArg) ==
  LET lineCount == Default(lineCountArg, Whole(1))
  IN  IF lineHeightArg = Undefined
      THEN LET d == getElementLineHeight(self, style)
           IN  Outcome(Mul(Mul(d.ret, d.self.fontSize), lineCount),
                       d.thrown, d.self, d.effects)
      ELSE Outcome(Mul(Mul(lineHeightArg, self.fontSize), lineCount),
                   NoError, self, <<>>)

\* variant of getMinHeightForLines: the minimal line-height is computed but
\* not passed on, so the element's current line-height is used
getMinHeightForLines_Current(self, style, lineCountArg) ==
  LET lineCount == Default(lineCountArg, Whole(1))
      minLH == getMinLineHeight(self)
      h == getHeightForLines(minLH.self, style, lineCount, Undefined)
  IN  Outcome(h.ret, h.thrown, h.self, minLH.effects \o h.effects)

getMinHeightForLines(self, style, lineCountArg) ==
  LET lineCount == Default(lineCountArg, Whole(1))
      minLH == getMinLineHeight(self)
      h == getHeightForLines(minLH.self, style, lineCount, minLH.ret)
  IN  Outcome(h.ret, h.thrown, h.self, minLH.effects \o h.effects)

\* variant of getMetrics: measures the reference text again for each snapshot
getMetrics_Remeasure(self, style) ==
  LET minLH == getMinLineHeight(self)
      cur == getElementLineHeight(minLH.self, style)
  IN  Outcome([t |-> "metrics",
               fontSize |-> self.fontSize,
               ascent |-> self.metrics.actualBoundingBoxAscent,
               descent |-> self.metrics.actualBoundingBoxDescent,
               minLineHeight |-> minLH.ret,
               currentLineHeight |-> cur.ret],
              NoError, cur.self, <<"measureText">> \o minLH.effects \o cur.effects)

getMetrics(self, style) ==
  LET minLH == getMinLineHeight(self)
      cur == getElementLineHeight(minLH.self, style)
  IN  Outcome([t |-> "metrics",
               fontSize |-> self.fontSize,
               ascent |-> self.metrics.actualBoundingBoxAscent,
               descent |-> self.metrics.actualBoundingBoxDescent,
               minLineHeight |-> minLH.ret,
               currentLineHeight |-> cur.ret],
              NoError, cur.self, minLH.effects \o cur.effects)

(* --------------------------- the state machine ------------------------- *)

VARIABLES
  style,         \* what window.getComputedStyle(element) reports now
  helper,        \* the object the most recent `new` produced, or NoInstance
  built,         \* helper as it was when its constructor returned
  snapshot,      \* the computed style the constructor of helper read
  measureCalls,  \* number of ctx.measureText calls made for helper
  last,          \* the most recent operation and what was observed of it
  memo           \* per accessor, its first result since construction or
                 \* the last style change

vars == <<style, helper, built, snapshot, measureCalls, last, memo>>

Accessors == {"getMinLineHeight", "getElementLineHeight", "getMetrics"}

NoResult == [t |-> "none"]

NoMemo == [op \in Accessors |-> NoResult]

Observation(op, args, o) ==
  [op |-> op, args |-> args, ret |-> o.ret, thrown |-> o.thrown, effects |-> o.effects]

\* number of occurrences of e in the sequence of external calls
Count(effects, e) == Cardinality({i \in DOMAIN effects : effects[i] = e})

Styles ==
  [fontSize : FontSizes, lineHeight : LineHeights,
   fontFamily : {Str("serif")}, fontWeight : {Str("400")}, fontStyle : {Str("normal")}]

\* the results ctx.measureText can report
TextMetrics == [actualBoundingBoxAscent : Ascents, actualBoundingBoxDescent : Descents]

Init ==
  /\ style \in Styles
  /\ helper = NoInstance
  /\ built = NoInstance
  /\ snapshot = NoInstance
  /\ measureCalls = 0
  /\ last = [op |-> "none", args |-> <<>>, ret |-> Undefined, thrown |-> NoError,
             effects |-> <<>>]
  /\ memo = NoMemo

\* helper = new TextMetricsHelper(element, referenceText)
Construct ==
  \E element \in Targets, referenceText \in ReferenceTexts, measured \in TextMetrics :
    LET o == constructor(element, referenceText, style, measured)
    IN  /\ helper' = o.self
        /\ built' = o.self
        /\ snapshot' = IF o.self = NoInstance THEN NoInstance ELSE style
        /\ measureCalls' = Count(o.effects, "measureText")
        /\ last' = Observation("constructor", <<element, referenceText>>, o)
        /\ memo' = NoMemo
        /\ UNCHANGED style

\* the page changes the element's font size
SetFontSize ==
  \E v \in FontSizes \ {style.fontSize} :
    /\ style' = [style EXCEPT !.fontSize = v]
    /\ last' = [op |-> "setStyle", args |-> <<v>>, ret |-> Undefined,
                thrown |-> NoError, effects |-> <<>>]
    /\ memo' = NoMemo
    /\ UNCHANGED <<helper, built, snapshot, measureCalls>>

\* the page changes the element's line-height
SetLineHeight ==
  \E v \in LineHeights \ {style.lineHeight} :
    /\ style' = [style EXCEPT !.lineHeight = v]
    /\ last' = [op |-> "setStyle", args |-> <<v>>, ret |-> Undefined,
                thrown |-> NoError, effects |-> <<>>]
    /\ memo' = NoMemo
    /\ UNCHANGED <<helper, built, snapshot, measureCalls>>

\* the common part of a method call on helper
Call(op, args, o) ==
  /\ helper' = o.self
  /\ measureCalls' = measureCalls + Count(o.effects, "measureText")
  /\ last' = Observation(op, args, o)
  /\ memo' = IF op \in Accessors /\ memo[op] = NoResult
             THEN [memo EXCEPT ![op] = o.ret]
             ELSE memo
  /\ UNCHANGED <<style, built, snapshot>>

CallGetMinLineHeight ==
  /\ helper # NoInstance
  /\ Call("getMinLineHeight", <<>>, getMinLineHeight(helper))

CallGetElementLineHeight ==
  /\ helper # NoInstance
  /\ Call("getElementLineHeight", <<>>, getElementLineHeight(helper, style))

CallGetHeightForLines ==
  /\ helper # NoInstance
  /\ \E lineCount \in LineCounts, lineHeight \in SuppliedLineHeights :
       Call("getHeightForLines", <<lineCount, lineHeight>>,
            getHeightForLines(helper, style, lineCount, lineHeight))

CallGetMinHeightForLines ==
  /\ helper # NoInstance
  /\ \E lineCount \in LineCounts :
       Call("getMinHeightForLines", <<lineCount>>,
            getMinHeightForLines(helper, style, lineCount))

CallGetMetrics ==
  /\ helper # NoInstance
  /\ Call("getMetrics", <<>>, getMetrics(helper, style))

Next ==
  \/ Construct
  \/ SetFontSize
  \/ SetLineHeight
  \/ CallGetMinLineHeight
  \/ CallGetElementLineHeight
  \/ CallGetHeightForLines
  \/ CallGetMinHeightForLines
  \/ CallGetMetrics

Spec == Init /\ [][Next]_vars

(* ------------------------- notions used by the claims ------------------ *)

Methods ==
  {"getMinLineHeight", "getElementLineHeight", "getHeightForLines",
   "getMinHeightForLines", "getMetrics"}

Ascent == helper.metrics.actualBoundingBoxAscent

Descent == helper.metrics.actualBoundingBoxDescent

\* the capability gap: ascent or descent (or both) absent from the GlyphExtent
Gap == Ascent = Undefined \/ Descent = Undefined

Warned == Count(last.effects, "console.warn") > 0

\* the minimal relative line-height the contract prescribes for helper
ExpectedMinLineHeight ==
  IF Gap THEN Whole(1) ELSE Div(Add(Ascent, Descent), helper.fontSize)

\* the effective relative line-height the contract prescribes for an instance
\* with font size fs when the element's computed style is st
ExpectedElementLineHeight(fs, st) ==
  IF IsNormal(st.lineHeight)
  THEN Mul(Div(Add(Ascent, Descent), fs), Num(11, 10))
  ELSE Div(parseFloat(st.lineHeight), fs)

(* ------------------------------- C1 ------------------------------------ *)

\* C1: when both ascent and descent are present, getMinLineHeight() returns
\* exactly (ascent + descent) / fontSize (a number r with r * fontSize =
\* ascent + descent) and emits no warning.
C1_MinLineHeightMeasured ==
  (last.op = "getMinLineHeight" /\ ~Gap) =>
     /\ IsNum(last.ret)
     /\ Mul(last.ret, helper.fontSize) = Add(Ascent, Descent)
     /\ last.ret = Div(Add(Ascent, Descent), helper.fontSize)
     /\ ~Warned
     /\ last.thrown = NoError

\* ascent 40, descent 8, fontSize 16: 48 / 16 = 3
C1_Witness ==
  /\ last.op = "getMinLineHeight"
  /\ ~Gap
  /\ Ascent = Whole(40) /\ Descent = Whole(8) /\ helper.fontSize = Whole(16)
  /\ last.ret = Whole(3)

(* ------------------------------- C2 ------------------------------------ *)

\* C2: when ascent or descent (or both) is absent, every getMinLineHeight()
\* call returns exactly 1, makes a warning observable and throws nothing.
C2_MinLineHeightFallback ==
  (last.op = "getMinLineHeight" /\ Gap) =>
     /\ last.ret = Whole(1)
     /\ Warned
     /\ last.thrown = NoError

\* only the ascent is absent
C2_Witness ==
  /\ last.op = "getMinLineHeight"
  /\ Ascent = Undefined /\ Descent = Whole(8)
  /\ last.ret = Whole(1)
  /\ last.effects = <<"console.warn">>

(* ------------------------------- C3 ------------------------------------ *)

\* C3: getElementLineHeight() returns (declared line-height in px) / fontSize
\* for a concrete line-height, and (ascent + descent) / fontSize * 1.1 for
\* "normal" when ascent and descent are present; 57.6px at 48 gives 1.2, and
\* 48 / 40 / 8 with "normal" gives 1.1.
C3_ElementLineHeight ==
  last.op = "getElementLineHeight" =>
     /\ ~IsNormal(style.lineHeight) =>
          /\ IsNum(last.ret)
          /\ Mul(last.ret, helper.fontSize) = parseFloat(style.lineHeight)
     /\ (IsNormal(style.lineHeight) /\ ~Gap) =>
          /\ IsNum(last.ret)
          /\ Mul(Mul(last.ret, helper.fontSize), Whole(10))
               = Mul(Add(Ascent, Descent), Whole(11))
     /\ (style.lineHeight = Px(576, 10) /\ helper.fontSize = Whole(48)) =>
          last.ret = Num(12, 10)
     /\ (IsNormal(style.lineHeight) /\ helper.fontSize = Whole(48)
           /\ Ascent = Whole(40) /\ Descent = Whole(8)) =>
          last.ret = Num(11, 10)

C3_Witness ==
  /\ last.op = "getElementLineHeight"
  /\ IsNormal(style.lineHeight)
  /\ helper.fontSize = Whole(48) /\ Ascent = Whole(40) /\ Descent = Whole(8)
  /\ last.ret = Num(11, 10)

(* ------------------------------- C4 ------------------------------------ *)

\* the value of the call recorded in last, repeated with lineCount n
HeightAgain(n) == getHeightForLines(helper, style, n, last.args[2]).ret

\* C4: for every integer lineCount (positive, zero, negative) and supplied
\* lineHeight lh, getHeightForLines(lineCount, lh) returns
\* lh * fontSize * lineCount and throws nothing, doubling the line count
\* doubles the result, and with lineHeight omitted the result is
\* getElementLineHeight() * fontSize * lineCount.
C4_HeightForLines ==
  (last.op = "getHeightForLines" /\ last.args[1] # Undefined) =>
     LET n == last.args[1]
         lh == last.args[2]
     IN  /\ last.thrown = NoError
         /\ lh # Undefined =>
              /\ IsNum(last.ret)
              /\ last.ret = Mul(lh, Mul(helper.fontSize, n))
              /\ HeightAgain(Mul(Whole(2), n)) = Mul(Whole(2), last.ret)
         /\ lh = Undefined =>
              last.ret = Mul(ExpectedElementLineHeight(helper.fontSize, style),
                             Mul(helper.fontSize, n))

\* a negative line count: 6/5 * 16 * -1 = -96/5
C4_Witness ==
  /\ last.op = "getHeightForLines"
  /\ last.args = <<Whole(-1), Num(6, 5)>>
  /\ helper.fontSize = Whole(16)
  /\ last.ret = Num(-96, 5)

(* ------------------------------- C5 ------------------------------------ *)

\* C5: getMinHeightForLines(n) equals getHeightForLines(n, getMinLineHeight()),
\* in the measured case and in the capability-gap case, where it is
\* 1.0 * fontSize * n.
C5_MinHeightForLines ==
  last.op = "getMinHeightForLines" =>
     LET n == last.args[1]
     IN  /\ last.ret = getHeightForLines(helper, style, n, getMinLineHeight(helper).ret).ret
         /\ last.ret = Mul(ExpectedMinLineHeight, Mul(helper.fontSize, Default(n, Whole(1))))
         /\ Gap => last.ret = Mul(helper.fontSize, Default(n, Whole(1)))
         /\ IsNum(last.ret)

\* the capability-gap case: 1 * 16 * 2 = 32
C5_Witness ==
  /\ last.op = "getMinHeightForLines"
  /\ Gap
  /\ last.args = <<Whole(2)>>
  /\ helper.fontSize = Whole(16)
  /\ last.ret = Whole(32)

(* ------------------------------- C6 ------------------------------------ *)

AnyMethodCall ==
  \/ CallGetMinLineHeight
  \/ CallGetElementLineHeight
  \/ CallGetHeightForLines
  \/ CallGetMinHeightForLines
  \/ CallGetMetrics

\* C6: constructing with no target (null or absent) throws the "no element
\* provided" error before any style lookup or measurement, and yields no
\* instance: nothing is constructed and no method call is possible on it.
C6_ConstructionFailure ==
  (last.op = "constructor" /\ last.args[1] \in {Null, Undefined}) =>
     /\ last.thrown = NoElementError
     /\ last.effects = <<>>
     /\ measureCalls = 0
     /\ helper = NoInstance
     /\ built = NoInstance
     /\ ~ENABLED AnyMethodCall

C6_Witness ==
  /\ last.op = "constructor"
  /\ last.args[1] = Null
  /\ last.thrown = NoElementError
  /\ helper = NoInstance

(* ------------------------------- C7 ------------------------------------ *)

\* C7: in every reachable configuration, getMetrics().minLineHeight ===
\* getMinLineHeight() and getMetrics().currentLineHeight ===
\* getElementLineHeight() at the same point in time, and ascent / descent
\* pass the absent sentinel through unchanged.
C7_MetricsSnapshotConsistency ==
  last.op = "getMetrics" =>
     /\ StrictEq(last.ret.minLineHeight, getMinLineHeight(helper).ret)
     /\ StrictEq(last.ret.currentLineHeight, getElementLineHeight(helper, style).ret)
     /\ last.ret.ascent = Ascent
     /\ last.ret.descent = Descent

(* ------------------------------- C8 ------------------------------------ *)

\* C8 as stated: after any style change made after construction,
\* getElementLineHeight(), getHeightForLines(n) with lineHeight omitted and
\* getMetrics() return what they returned under the style read at
\* construction.
C8_BoundToSnapshot ==
  /\ last.op = "getElementLineHeight" =>
       last.ret = ExpectedElementLineHeight(parseFloat(snapshot.fontSize), snapshot)
  /\ (last.op = "getHeightForLines" /\ last.args[2] = Undefined) =>
       last.ret = Mul(ExpectedElementLineHeight(parseFloat(snapshot.fontSize), snapshot),
                      Mul(parseFloat(snapshot.fontSize), Default(last.args[1], Whole(1))))
  /\ last.op = "getMetrics" =>
       /\ last.ret.fontSize = parseFloat(snapshot.fontSize)
       /\ last.ret.currentLineHeight
            = ExpectedElementLineHeight(parseFloat(snapshot.fontSize), snapshot)

\* C8 amended: the font size and glyph extent are those read at construction
\* whatever the element's style is now, and only a new instance sees a new
\* font size; the line-height is re-read from the element on every call and
\* divided by the construction-time font size.
C8_SnapshotFontLiveLineHeight ==
  LET fs0 == parseFloat(snapshot.fontSize)
  IN  /\ helper # NoInstance => helper.fontSize = fs0
      /\ (last.op = "constructor" /\ helper # NoInstance) =>
           helper.fontSize = parseFloat(style.fontSize)
      /\ last.op = "getMinLineHeight" =>
           last.ret = (IF Gap THEN Whole(1) ELSE Div(Add(Ascent, Descent), fs0))
      /\ last.op = "getMinHeightForLines" =>
           last.ret = Mul(IF Gap THEN Whole(1) ELSE Div(Add(Ascent, Descent), fs0),
                          Mul(fs0, Default(last.args[1], Whole(1))))
      /\ (last.op = "getHeightForLines" /\ last.args[2] # Undefined) =>
           last.ret = Mul(last.args[2], Mul(fs0, Default(last.args[1], Whole(1))))
      /\ last.op = "getElementLineHeight" =>
           last.ret = ExpectedElementLineHeight(fs0, style)
      /\ (last.op = "getHeightForLines" /\ last.args[2] = Undefined) =>
           last.ret = Mul(ExpectedElementLineHeight(fs0, style),
                          Mul(fs0, Default(last.args[1], Whole(1))))
      /\ last.op = "getMetrics" =>
           /\ last.ret.fontSize = fs0
           /\ last.ret.ascent = built.metrics.actualBoundingBoxAscent
           /\ last.ret.descent = built.metrics.actualBoundingBoxDescent
           /\ last.ret.minLineHeight
                = (IF Gap THEN Whole(1) ELSE Div(Add(Ascent, Descent), fs0))
           /\ last.ret.currentLineHeight = ExpectedElementLineHeight(fs0, style)

\* both the font size and the line-height changed since construction, and
\* getElementLineHeight() returned the new line-height over the old font size
C8_Witness ==
  /\ last.op = "getElementLineHeight"
  /\ snapshot.fontSize = Px(48, 1) /\ snapshot.lineHeight = Px(576, 10)
  /\ style.fontSize = Px(16, 1) /\ style.lineHeight = Px(24, 1)
  /\ last.ret = Num(1, 2)

(* ------------------------------- C9 ------------------------------------ *)

\* with no style change in between, an accessor returns what its first call
\* returned
Idempotent == last.op \in Accessors => last.ret = memo[last.op]

\* no method changes the instance or measures again
NoMutation ==
  last.op \in Methods =>
     /\ helper = built
     /\ measureCalls = 1
     /\ last.thrown = NoError

\* C9 as stated: repeated calls of getMinLineHeight(), getElementLineHeight()
\* and getMetrics() with no style change in between return identical results,
\* and every method is free of side effects: it changes nothing and its only
\* external calls are reads of the computed style.
C9_IdempotentNoSideEffects ==
  /\ Idempotent
  /\ NoMutation
  /\ last.op \in Methods =>
       \A i \in DOMAIN last.effects : last.effects[i] = "getComputedStyle"

\* C9 amended: the same, except that getMinLineHeight(), and with it
\* getMinHeightForLines() and getMetrics(), writes one warning to the console
\* on every call made while ascent or descent is absent (and only then).
C9_IdempotentWarningOnly ==
  /\ Idempotent
  /\ NoMutation
  /\ last.op \in Methods =>
       /\ \A i \in DOMAIN last.effects :
            last.effects[i] \in {"getComputedStyle", "console.warn"}
       /\ Count(last.effects, "console.warn")
            = (IF Gap /\ last.op \in {"getMinLineHeight", "getMinHeightForLines", "getMetrics"}
               THEN 1 ELSE 0)

\* a second getMetrics() in the capability gap with line-height "normal":
\* the same record again (currentLineHeight NaN both times), one warning
C9_Witness ==
  /\ last.op = "getMetrics"
  /\ Gap
  /\ IsNormal(style.lineHeight)
  /\ memo["getMinLineHeight"] # NoResult
  /\ memo["getElementLineHeight"] # NoResult
  /\ last.ret = memo["getMetrics"]
  /\ last.ret.currentLineHeight = NaN
  /\ Count(last.effects, "console.warn") = 1

(* ------------------------------- C10 ----------------------------------- *)

\* C10: after a successful construction and any sequence of method calls,
\* measureText has been called exactly once for the instance (by the
\* constructor), and the stored GlyphExtent, fontSize and reference text are
\* those of the construction.
C10_MeasuredOnce ==
  helper # NoInstance =>
     /\ measureCalls = 1
     /\ last.op \in Methods => Count(last.effects, "measureText") = 0
     /\ last.op = "constructor" => Count(last.effects, "measureText") = 1
     /\ helper.metrics = built.metrics
     /\ helper.fontSize = built.fontSize
     /\ helper.fontSize = parseFloat(snapshot.fontSize)
     /\ helper.referenceText = built.referenceText
     /\ helper.referenceText \in {DefaultReferenceText, Str("Hg")}

\* every accessor has been called, and the element's style has changed
C10_Witness ==
  /\ helper # NoInstance
  /\ style.fontSize # snapshot.fontSize
  /\ last.op = "getMinHeightForLines"
  /\ \A op \in Accessors : memo[op] # NoResult
  /\ measureCalls = 1

====
